---- MODULE Spec2Model ----
(***************************************************************************)
(* Post store and request handlers of app.py (a single-file Flask blog    *)
(* over SQLite).                                                           *)
(*                                                                         *)
(* Text is kept run-length encoded: a string is a sequence of runs         *)
(* [c |-> unit, n |-> count], a unit being one character or, inside rich   *)
(* text, one whole markup tag.  The encoding lets the real limits of       *)
(* save_post (100 and 50000 characters) be used as they stand.             *)
(***************************************************************************)
EXTENDS Integers, Sequences, FiniteSets, TLC

VARIABLES
    posts,      \* table posts: id -> [title, content, created_at]
    images,     \* table images: id -> [post_id, filename]
    last,       \* the operation or request that ran last, and its outcome
    hiId,       \* history: the highest identifier add_post has returned so far
    submitted   \* history: id -> the (title, content) last passed to the store for that row

vars == <<posts, images, last, hiId, submitted>>

----------------------------------------------------------------------------
(* Bounds of the model *)

MaxRows == 2
MaxImages == 1
MaxWebRows == 1
MaxFeedRows == 25

(* Program constants *)

MAX_TITLE == 100
MAX_CONTENT == 50000
RSS_LIMIT == 20

\* Python's None where an integer is expected: "if limit:" (line 55) sends
\* None and 0 down the same branch.
NoLimit == 0
\* cursor.lastrowid is not read when the statement raised.
NoId == 0

----------------------------------------------------------------------------
(* Strings *)

R(c, n) == [c |-> c, n |-> n]
S1(c) == <<R(c, 1)>>
Empty == << >>

RECURSIVE StrLen(_)
StrLen(s) == IF s = << >> THEN 0 ELSE Head(s).n * Len(Head(s).c) + StrLen(Tail(s))

IsSpace(c) == c = " "

RECURSIVE lstrip(_)
lstrip(s) == IF s # << >> /\ IsSpace(Head(s).c) THEN lstrip(Tail(s)) ELSE s

RECURSIVE rstrip(_)
rstrip(s) ==
    IF s # << >> /\ IsSpace(s[Len(s)].c) THEN rstrip(SubSeq(s, 1, Len(s) - 1)) ELSE s

\* str.strip(): leading and trailing whitespace removed
strip(s) == rstrip(lstrip(s))

\* markupsafe.escape, one unit at a time: & < > ' " become entities
EscapeUnit(u) ==
    CASE u = "&" -> "&amp;"
      [] u = "<" -> "&lt;"
      [] u = ">" -> "&gt;"
      [] u = "'" -> "&#39;"
      [] u = "<b>" -> "&lt;b&gt;"
      [] u = "</b>" -> "&lt;/b&gt;"
      [] u = "<b onclick=x>" -> "&lt;b onclick=x&gt;"
      [] u = "<script>" -> "&lt;script&gt;"
      [] u = "</script>" -> "&lt;/script&gt;"
      [] OTHER -> u

escape(s) == [i \in 1..Len(s) |-> R(EscapeUnit(s[i].c), s[i].n)]

\* bleach.clean(content, tags=[b, i, u, h1, h2, h3, p, br, ul, ol, li,
\* blockquote, img], attributes={*: [style], img: [src, alt, style]},
\* protocols=[http, https]), strip left at its default False: an allowed tag
\* passes, an attribute outside the allow-list is dropped from it, a tag
\* outside the allow-list is escaped, and & < > in text become entities
\* (quotes in text stay).
CleanUnit(u) ==
    CASE u = "&" -> "&amp;"
      [] u = "<" -> "&lt;"
      [] u = ">" -> "&gt;"
      [] u = "<b onclick=x>" -> "<b>"
      [] u = "<script>" -> "&lt;script&gt;"
      [] u = "</script>" -> "&lt;/script&gt;"
      [] OTHER -> u

bleach_clean(s) == [i \in 1..Len(s) |-> R(CleanUnit(s[i].c), s[i].n)]

----------------------------------------------------------------------------
(* SQLite *)

Max(S) == CHOOSE x \in S : \A y \in S : y <= x

\* The rowid SQLite gives a new row of a table whose key is declared
\* INTEGER PRIMARY KEY (without AUTOINCREMENT): one more than the largest
\* rowid now in the table.
NextRowId(rows) == IF rows = {} THEN 1 ELSE Max(rows) + 1

\* A bound parameter compared with the INTEGER column id.  An int compares as
\* itself; text that reads as an integer is converted by the column's
\* affinity; any other text equals no rowid.
IntParam(n) == [form |-> "int", n |-> n]
DigitsParam(n) == [form |-> "digits", n |-> n]
JunkParam == [form |-> "junk", n |-> 0]
NoneLiteral == [form |-> "None", n |-> 0]
EmptyParam == [form |-> "empty", n |-> 0]
Absent == [form |-> "absent", n |-> 0]
NewParam == [form |-> "new", n |-> 0]

MatchIds(P, v) == IF v.form \in {"int", "digits"} THEN {v.n} \cap DOMAIN P ELSE {}

Row(P, id) ==
    [id |-> id, title |-> P[id].title, content |-> P[id].content,
     created_at |-> P[id].created_at]

RECURSIVE OrderByIdDesc(_, _)
OrderByIdDesc(P, ids) ==
    IF ids = {} THEN << >>
    ELSE <<Row(P, Max(ids))>> \o OrderByIdDesc(P, ids \ {Max(ids)})

RECURSIVE OrderByIdAsc(_, _)
OrderByIdAsc(P, ids) ==
    IF ids = {} THEN << >>
    ELSE OrderByIdAsc(P, ids \ {Max(ids)}) \o <<Row(P, Max(ids))>>

\* LIMIT n: a negative n is no limit
Limit(rows, n) == IF n < 0 \/ n >= Len(rows) THEN rows ELSE SubSeq(rows, 1, n)

----------------------------------------------------------------------------
(* class Database.  Each operation opens its own connection; fail is the   *)
(* connection or a statement raising sqlite3.Error, which get_connection   *)
(* re-raises: nothing is committed then.                                   *)

get_posts_unlimited(P, limit) == OrderByIdDesc(P, DOMAIN P)

get_posts_ascending(P, limit) ==
    IF limit # NoLimit THEN Limit(OrderByIdAsc(P, DOMAIN P), limit)
    ELSE OrderByIdAsc(P, DOMAIN P)

get_posts(P, limit) ==
    IF limit # NoLimit THEN Limit(OrderByIdDesc(P, DOMAIN P), limit)
    ELSE OrderByIdDesc(P, DOMAIN P)

add_post(P, title, content, t, fail) ==
    IF fail THEN [raised |-> TRUE, posts |-> P, value |-> NoId]
    ELSE LET id == NextRowId(DOMAIN P)
         IN [raised |-> FALSE,
             posts |-> P @@ (id :> [title |-> escape(title),
                                    content |-> bleach_clean(content),
                                    created_at |-> t]),
             value |-> id]

\* fetchone(): the matching row, or None (here the empty sequence)
get_post_by_id(P, v) ==
    IF MatchIds(P, v) = {} THEN << >> ELSE <<Row(P, CHOOSE i \in MatchIds(P, v) : TRUE)>>

add_image(I, post_id, filename, fail) ==
    IF fail THEN [raised |-> TRUE, images |-> I]
    ELSE [raised |-> FALSE,
          images |-> I @@ (NextRowId(DOMAIN I) :> [post_id |-> post_id, filename |-> filename])]

get_images_by_post(I, post_id) == {i \in DOMAIN I : I[i].post_id = post_id}

update_post_replace(P, v, title, content, fail) ==
    IF fail THEN [raised |-> TRUE, posts |-> P]
    ELSE [raised |-> FALSE,
          posts |-> [i \in DOMAIN P |->
                        IF i \in MatchIds(P, v)
                        THEN [title |-> escape(title), content |-> bleach_clean(content),
                              created_at |-> 0]
                        ELSE P[i]]]

update_post_raw_title(P, v, title, content, fail) ==
    IF fail THEN [raised |-> TRUE, posts |-> P]
    ELSE [raised |-> FALSE,
          posts |-> [i \in DOMAIN P |->
                        IF i \in MatchIds(P, v)
                        THEN [P[i] EXCEPT !.title = title,
                                          !.content = bleach_clean(content)]
                        ELSE P[i]]]

update_post(P, v, title, content, fail) ==
    IF fail THEN [raised |-> TRUE, posts |-> P]
    ELSE [raised |-> FALSE,
          posts |-> [i \in DOMAIN P |->
                        IF i \in MatchIds(P, v)
                        THEN [P[i] EXCEPT !.title = escape(title),
                                          !.content = bleach_clean(content)]
                        ELSE P[i]]]

delete_post_from(P, v, fail) ==
    IF fail THEN [raised |-> TRUE, posts |-> P]
    ELSE [raised |-> FALSE,
          posts |-> [i \in {j \in DOMAIN P : v.form \in {"int", "digits"} => j < v.n}
                        |-> P[i]]]

delete_post(P, v, fail) ==
    IF fail THEN [raised |-> TRUE, posts |-> P]
    ELSE [raised |-> FALSE, posts |-> [i \in DOMAIN P \ MatchIds(P, v) |-> P[i]]]

----------------------------------------------------------------------------
(* Request handlers.  A response is its status and, for a redirect, target *)

BadRequest == "400"
RedirectHome == "302 /"
RedirectError == "302 /error"
Editor == "200 editor.html"
Integrated == "200 integrated.html"
Feed == "200 application/rss+xml"
\* an exception left the view function: Flask answers through errorhandler(500)
Uncaught == "500"

\* Python truth of request.form.get('post_id'): None and '' are false
Truthy(v) == v.form \notin {"absent", "empty"}

Ids(rows) == [k \in 1..Len(rows) |-> rows[k].id]

\* /edit/<post_id>
edit_post(P, post_id, fail) ==
    IF post_id = NewParam THEN [resp |-> Editor, shown |-> << >>]
    ELSE IF post_id.form # "digits" THEN [resp |-> RedirectError, shown |-> << >>]
    ELSE IF fail THEN [resp |-> RedirectError, shown |-> << >>]
    ELSE LET post == get_post_by_id(P, IntParam(post_id.n))
         IN IF post # << >> THEN [resp |-> Editor, shown |-> Ids(post)]
            ELSE [resp |-> RedirectHome, shown |-> << >>]

save_post_late_check(P, post_id, form_title, form_content, t, fail) ==
    LET title == strip(form_title)
        content == strip(form_content)
        r == IF Truthy(post_id) /\ post_id # NoneLiteral
             THEN update_post(P, post_id, title, content, fail)
             ELSE add_post(P, title, content, t, fail)
    IN IF title = Empty \/ content = Empty \/ StrLen(title) > MAX_TITLE
          \/ StrLen(content) > MAX_CONTENT
       THEN [resp |-> BadRequest, call |-> "none", posts |-> r.posts]
       ELSE [resp |-> IF r.raised THEN RedirectError ELSE RedirectHome,
             call |-> IF Truthy(post_id) /\ post_id # NoneLiteral THEN "update_post"
                      ELSE "add_post",
             posts |-> r.posts]

\* /save
save_post(P, post_id, form_title, form_content, t, fail) ==
    LET title == strip(form_title)
        content == strip(form_content)
    IN IF title = Empty \/ content = Empty
       THEN [resp |-> BadRequest, call |-> "none", posts |-> P]
       ELSE IF StrLen(title) > MAX_TITLE
       THEN [resp |-> BadRequest, call |-> "none", posts |-> P]
       ELSE IF StrLen(content) > MAX_CONTENT
       THEN [resp |-> BadRequest, call |-> "none", posts |-> P]
       ELSE IF Truthy(post_id) /\ post_id # NoneLiteral
            THEN LET r == update_post(P, post_id, title, content, fail)
                 IN [resp |-> IF r.raised THEN RedirectError ELSE RedirectHome,
                     call |-> "update_post", posts |-> r.posts]
            ELSE LET r == add_post(P, title, content, t, fail)
                 IN [resp |-> IF r.raised THEN RedirectError ELSE RedirectHome,
                     call |-> "add_post", posts |-> r.posts]

\* /delete/<int:post_id>
delete_post_view(P, post_id, fail) ==
    LET r == delete_post(P, IntParam(post_id), fail)
    IN [resp |-> IF r.raised THEN RedirectError ELSE RedirectHome, posts |-> r.posts]

\* /
index(P, fail) ==
    IF fail THEN [resp |-> RedirectError, shown |-> << >>]
    ELSE [resp |-> Integrated, shown |-> Ids(get_posts(P, NoLimit))]

\* /rss: no try block around the read
rss_feed(P, fail) ==
    IF fail THEN [resp |-> Uncaught, shown |-> << >>]
    ELSE [resp |-> Feed, shown |-> Ids(get_posts(P, RSS_LIMIT))]

----------------------------------------------------------------------------
(* History kept beside the tables *)

\* submitted, after rows ids of table P2 received (title, content); a row
\* that no recorded call wrote has nothing submitted for it
Track(P2, ids, title, content) ==
    [i \in DOMAIN P2 |->
        IF i \in ids THEN [title |-> title, content |-> content]
        ELSE IF i \in DOMAIN submitted THEN submitted[i]
        ELSE [title |-> Empty, content |-> Empty]]

----------------------------------------------------------------------------
(* Direct use of the store *)

Titles == {S1("a"), S1("<")}
Contents == {<<R("<b onclick=x>", 1), R("a", 1), R("</b>", 1)>>, S1("<script>")}
Timestamps == {0, 1}
Filenames == {"x.png"}
ParamIds == 1..MaxRows
ImagePostIds == {1, 2}

Init ==
    /\ posts = << >>
    /\ images = << >>
    /\ last = [op |-> "init_db"]
    /\ hiId = 0
    /\ submitted = << >>

AddPost ==
    \E title \in Titles, content \in Contents, t \in Timestamps, fail \in BOOLEAN :
        /\ Cardinality(DOMAIN posts) < MaxRows
        /\ \E r \in {add_post(posts, title, content, t, fail)} :
              /\ posts' = r.posts
              /\ last' = [op |-> "add_post", id |-> r.value, title |-> title,
                          content |-> content, fail |-> fail, raised |-> r.raised,
                          before |-> DOMAIN posts, prevHi |-> hiId]
              /\ hiId' = IF r.value > hiId THEN r.value ELSE hiId
              /\ submitted' = Track(r.posts, IF r.raised THEN {} ELSE {r.value},
                                    title, content)
        /\ UNCHANGED images

UpdatePost ==
    \E id \in ParamIds, title \in Titles, content \in Contents, fail \in BOOLEAN :
        /\ \E r \in {update_post(posts, IntParam(id), title, content, fail)} :
              /\ posts' = r.posts
              /\ last' = [op |-> "update_post", id |-> id, fail |-> fail,
                          raised |-> r.raised, hit |-> id \in DOMAIN posts]
              /\ submitted' = Track(r.posts, IF r.raised THEN {} ELSE {id},
                                    title, content)
        /\ UNCHANGED <<images, hiId>>

DeletePost ==
    \E id \in ParamIds, fail \in BOOLEAN :
        /\ \E r \in {delete_post(posts, IntParam(id), fail)} :
              /\ posts' = r.posts
              /\ last' = [op |-> "delete_post", id |-> id, fail |-> fail,
                          raised |-> r.raised, hit |-> id \in DOMAIN posts]
              /\ submitted' = Track(r.posts, {}, Empty, Empty)
        /\ UNCHANGED <<images, hiId>>

AddImage ==
    \E post_id \in ImagePostIds, filename \in Filenames, fail \in BOOLEAN :
        /\ Cardinality(DOMAIN images) < MaxImages
        /\ \E r \in {add_image(images, post_id, filename, fail)} :
              /\ images' = r.images
              /\ last' = [op |-> "add_image", post_id |-> post_id, fail |-> fail,
                          raised |-> r.raised]
        /\ UNCHANGED <<posts, hiId, submitted>>

Next == AddPost \/ UpdatePost \/ DeletePost \/ AddImage

Spec == Init /\ [][Next]_vars

----------------------------------------------------------------------------
(* Requests *)

SaveRequest(FormIds, FormTitles, FormContents, Stamps, bound) ==
    \E post_id \in FormIds, title \in FormTitles, content \in FormContents,
       t \in Stamps, fail \in BOOLEAN :
        /\ Cardinality(DOMAIN posts) < bound \/ (Truthy(post_id) /\ post_id # NoneLiteral)
        /\ \E r \in {save_post(posts, post_id, title, content, t, fail)} :
           LET new == DOMAIN r.posts \ DOMAIN posts
           IN /\ posts' = r.posts
              /\ last' = [op |-> "save_post", post_id |-> post_id, title |-> title,
                          content |-> content, fail |-> fail, resp |-> r.resp,
                          call |-> r.call, new |-> new,
                          existed |-> MatchIds(posts, post_id) # {}]
              /\ hiId' = IF new # {} /\ Max(new) > hiId THEN Max(new) ELSE hiId
              /\ submitted' =
                    Track(r.posts,
                          IF r.resp # RedirectHome THEN {}
                          ELSE IF r.call = "add_post" THEN new
                          ELSE MatchIds(posts, post_id),
                          strip(title), strip(content))
        /\ UNCHANGED images

DeleteRequest(UrlIds) ==
    \E post_id \in UrlIds, fail \in BOOLEAN :
        /\ \E r \in {delete_post_view(posts, post_id, fail)} :
              /\ posts' = r.posts
              /\ last' = [op |-> "delete_post", post_id |-> post_id, fail |-> fail,
                          resp |-> r.resp]
              /\ submitted' = Track(r.posts, {}, Empty, Empty)
        /\ UNCHANGED <<images, hiId>>

EditRequest(UrlIds) ==
    \E post_id \in {NewParam, JunkParam} \cup {DigitsParam(n) : n \in UrlIds},
       fail \in BOOLEAN :
        /\ \E r \in {edit_post(posts, post_id, fail)} :
              last' = [op |-> "edit_post", post_id |-> post_id, fail |-> fail,
                       resp |-> r.resp, shown |-> r.shown]
        /\ UNCHANGED <<posts, images, hiId, submitted>>

IndexRequest ==
    \E fail \in BOOLEAN :
        /\ \E r \in {index(posts, fail)} :
              last' = [op |-> "index", fail |-> fail, resp |-> r.resp, shown |-> r.shown]
        /\ UNCHANGED <<posts, images, hiId, submitted>>

RssRequest ==
    \E fail \in BOOLEAN :
        /\ \E r \in {rss_feed(posts, fail)} :
              last' = [op |-> "rss_feed", fail |-> fail, resp |-> r.resp, shown |-> r.shown]
        /\ UNCHANGED <<posts, images, hiId, submitted>>

WebIds == 1..(MaxWebRows + 1)
WebFormIds == {Absent, EmptyParam, NoneLiteral, JunkParam} \cup {DigitsParam(n) : n \in WebIds}
WebTitles ==
    {Empty, S1(" "), <<R(" ", 1), R("a", 1)>>, <<R("<", 100), R(" ", 1)>>, <<R("a", 101)>>}
WebContents ==
    {Empty, <<R("<script>", 1), R(" ", 2)>>, <<R(" ", 1), R("a", 50000)>>, <<R("a", 50001)>>}

SaveWeb == SaveRequest(WebFormIds, WebTitles, WebContents, {0}, MaxWebRows)
DeleteWeb == DeleteRequest(WebIds)
EditWeb == EditRequest(WebIds)

NextWeb == SaveWeb \/ DeleteWeb \/ EditWeb \/ IndexRequest \/ RssRequest

SpecWeb == Init /\ [][NextWeb]_vars

\* A store that fills past the feed's limit
FeedIds == {1, RSS_LIMIT, MaxFeedRows}

SaveFeed == SaveRequest({Absent}, {S1("a")}, {S1("a")}, {0}, MaxFeedRows)
DeleteFeed == DeleteRequest(FeedIds)

NextFeed == SaveFeed \/ DeleteFeed \/ IndexRequest \/ RssRequest

SpecFeed == Init /\ [][NextFeed]_vars

----------------------------------------------------------------------------
(* Properties of the store *)

\* C1: every create returns an identifier that no stored post had and that is
\* strictly greater than every identifier an earlier create returned (also
\* after deletions), and the posts stored before keep their identifiers.
C1_IdsUniqueIncreasing ==
    (last.op = "add_post" /\ ~last.raised) =>
        /\ last.id \notin last.before
        /\ last.id > last.prevHi
        /\ last.before \subseteq DOMAIN posts

\* C2: a post read back after create holds the escaped title and the
\* sanitized content that were passed in, and every stored post holds the
\* escaped and sanitized form of what was last submitted for it.
C2_StoredSanitized ==
    /\ (last.op = "add_post" /\ ~last.raised) =>
          /\ get_post_by_id(posts, IntParam(last.id)) # << >>
          /\ get_post_by_id(posts, IntParam(last.id))[1].id = last.id
          /\ get_post_by_id(posts, IntParam(last.id))[1].title = escape(last.title)
          /\ get_post_by_id(posts, IntParam(last.id))[1].content
                = bleach_clean(last.content)
    /\ DOMAIN submitted = DOMAIN posts
    /\ \A i \in DOMAIN posts :
          /\ posts[i].title = escape(submitted[i].title)
          /\ posts[i].content = bleach_clean(submitted[i].content)

\* an update has just rewritten a stored post whose title and content both
\* differ from what was submitted
C2_Witness ==
    /\ last.op = "update_post" /\ last.hit /\ ~last.raised
    /\ posts[last.id].title # submitted[last.id].title
    /\ posts[last.id].content # submitted[last.id].content
    /\ submitted[last.id].title = S1("<")

\* C3: the unlimited listing holds every stored post once, in strictly
\* descending identifier order, and a listing limited to n > 0 has at most n
\* posts and is a prefix of the unlimited one.
C3_ListRecent ==
    LET all == get_posts(posts, NoLimit)
    IN /\ Len(all) = Cardinality(DOMAIN posts)
       /\ \A i \in DOMAIN posts : \E k \in 1..Len(all) : all[k] = Row(posts, i)
       /\ \A k \in 1..(Len(all) - 1) : all[k].id > all[k + 1].id
       /\ \A n \in 1..(MaxRows + 1) :
             LET some == get_posts(posts, n)
             IN /\ Len(some) <= n
                /\ Len(some) <= Len(all)
                /\ some = SubSeq(all, 1, Len(some))

\* more posts stored than a limited listing returns
C3_Witness ==
    /\ Cardinality(DOMAIN posts) >= 2
    /\ Len(get_posts(posts, 1)) = 1
    /\ get_posts(posts, 1)[1].id = Max(DOMAIN posts)
    /\ Len(get_posts(posts, NoLimit)) = Cardinality(DOMAIN posts)

\* C4: an update that the storage carries out rewrites the title and content
\* of the post with that id and nothing else (created_at, the other posts,
\* the set of ids and the images stay); on an id that is not stored it changes
\* nothing and does not raise.
C4_UpdateFrame ==
    [][(last'.op = "update_post" /\ ~last'.fail) =>
          /\ ~last'.raised
          /\ DOMAIN posts' = DOMAIN posts
          /\ images' = images
          /\ \A i \in DOMAIN posts :
                IF i = last'.id
                THEN /\ posts'[i].created_at = posts[i].created_at
                     /\ posts'[i].title = escape(submitted'[i].title)
                     /\ posts'[i].content = bleach_clean(submitted'[i].content)
                ELSE posts'[i] = posts[i]
          /\ last'.id \notin DOMAIN posts => posts' = posts]_vars

\* an update has rewritten a post stamped 1, beside another post and an image
C4_Witness ==
    /\ last.op = "update_post" /\ last.hit /\ ~last.raised
    /\ posts[last.id].created_at = 1
    /\ \E j \in DOMAIN posts : j # last.id
    /\ \E k \in DOMAIN images : images[k].post_id = last.id

\* C5: after a delete that the storage carries out, no post is read back
\* under that id, every other post and every image is as before, and on an
\* id that is not stored nothing changes; it does not raise.
C5_DeleteFrame ==
    [][(last'.op = "delete_post" /\ ~last'.fail) =>
          /\ ~last'.raised
          /\ get_post_by_id(posts', IntParam(last'.id)) = << >>
          /\ DOMAIN posts' = DOMAIN posts \ {last'.id}
          /\ \A i \in DOMAIN posts' : posts'[i] = posts[i]
          /\ images' = images
          /\ last'.id \notin DOMAIN posts => posts' = posts]_vars

\* a stored post was deleted; another post and an image of the deleted post remain
C5_Witness ==
    /\ last.op = "delete_post" /\ last.hit /\ ~last.raised
    /\ last.id \notin DOMAIN posts
    /\ posts # << >>
    /\ \E k \in DOMAIN images : images[k].post_id = last.id

\* C10: an image row is inserted only for a post_id that is stored at that
\* moment.
C10_ImageReferencesStoredPost ==
    (last.op = "add_image" /\ ~last.raised) =>
        /\ \E k \in DOMAIN images : images[k].post_id = last.post_id
        /\ last.post_id \in DOMAIN posts

----------------------------------------------------------------------------
(* Properties of the request handlers *)

RawInvalid(title, content) ==
    \/ title = Empty
    \/ content = Empty
    \/ StrLen(title) > MAX_TITLE
    \/ StrLen(content) > MAX_CONTENT

\* C6 as stated: a save whose title or content is empty, whose title is
\* longer than 100 characters or whose content is longer than 50000 is
\* answered 400 and leaves the posts as they were.
C6_RejectsInvalidRaw ==
    [][(last'.op = "save_post" /\ RawInvalid(last'.title, last'.content)) =>
          (last'.resp = BadRequest /\ posts' = posts)]_vars

\* C6 amended: a save whose title or content, once leading and trailing
\* whitespace is stripped, is empty, or whose stripped title is longer than
\* 100 characters or stripped content longer than 50000, is answered 400 and
\* leaves the posts as they were, with or without a post id.
C6_RejectsInvalidStripped ==
    [][(last'.op = "save_post"
        /\ RawInvalid(strip(last'.title), strip(last'.content))) =>
          (last'.resp = BadRequest /\ posts' = posts)]_vars

\* a save that names a stored post was rejected for a title of 101 characters
C6_Witness ==
    /\ last.op = "save_post" /\ last.resp = BadRequest
    /\ StrLen(strip(last.title)) = MAX_TITLE + 1
    /\ strip(last.content) # Empty
    /\ MatchIds(posts, last.post_id) # {}

\* C7: an accepted save goes to update exactly when the post id it supplies
\* is that of a stored post and to create otherwise, so that afterwards a new
\* post, or the post with the supplied id, holds what was submitted.
C7_RoutedByExistence ==
    (last.op = "save_post" /\ last.resp = RedirectHome) =>
        /\ last.call = "update_post" <=> last.existed
        /\ last.call = "add_post" <=> ~last.existed
        /\ \E i \in DOMAIN posts :
              /\ i \in last.new \/ (last.existed /\ i \in MatchIds(posts, last.post_id))
              /\ posts[i].title = escape(strip(last.title))
              /\ posts[i].content = bleach_clean(strip(last.content))

\* C8: no handler lets a storage error out; a handler whose storage call
\* raised answers with the redirect to the error page.
StorageCalled ==
    CASE last.op = "save_post" -> last.call # "none"
      [] last.op = "edit_post" -> last.post_id.form = "digits"
      [] last.op \in {"delete_post", "index", "rss_feed"} -> TRUE
      [] OTHER -> FALSE

C8_StorageErrorsCaught ==
    (last.op \in {"save_post", "edit_post", "delete_post", "index", "rss_feed"}
     /\ last.fail /\ StorageCalled) => last.resp = RedirectError

\* C9: the feed holds min(N, 20) items, the posts with the 20 highest ids,
\* highest first.
C9_FeedNewestTwenty ==
    (last.op = "rss_feed" /\ last.resp = Feed) =>
        LET n == Cardinality(DOMAIN posts)
            items == last.shown
        IN /\ Len(items) = IF n < RSS_LIMIT THEN n ELSE RSS_LIMIT
           /\ \A k \in 1..(Len(items) - 1) : items[k] > items[k + 1]
           /\ {items[k] : k \in 1..Len(items)}
                = {i \in DOMAIN posts :
                      Cardinality({j \in DOMAIN posts : j > i}) < RSS_LIMIT}

\* a feed of 20 items was served from 25 posts, the oldest of them deleted
C9_Witness ==
    /\ last.op = "rss_feed" /\ last.resp = Feed
    /\ Cardinality(DOMAIN posts) = 25
    /\ 1 \notin DOMAIN posts
    /\ Len(last.shown) = 20

====
